---- MODULE Spec2Model ----
(***************************************************************************)
(* A model of src/main.cpp of the 1brc solution: the memory-mapped file,   *)
(* split_input, Reader::getline, get_temperature, Stats, the worker        *)
(* threads of process_all, merge_results and dump_results.                 *)
(*                                                                         *)
(* Bytes are their character codes.  A std::string_view into the mapped    *)
(* file is a record [off, len]: an offset into the buffer and a length.    *)
(* Offsets are 0-based as in the code; TLA+ sequences are 1-based, so      *)
(* byte k of the buffer is data[k + 1].                                    *)
(***************************************************************************)
EXTENDS Integers, Sequences, FiniteSets, TLC

\* ------------------------------------------------------------------ bounds
\* Records per input file.
MaxRecords == 3
\* Worker count (NUM_THREADS) is drawn from 1..MaxChunks.
MaxChunks == 3
\* Length of the list of maps handed to merge_results on its own.
MaxMaps == 3

\* ------------------------------------------------------- character codes
CharNL == 10
CharMinus == 45
CharDot == 46
CharZero == 48
data_sep == 59
CharNUL == 0
\* Not a byte: the read faulted (the address is not mapped).
Fault == -1

\* ------------------------------------------------------ std::size_t
\* std::size_t arithmetic is modular.  The target's size_t has 64 bits; the
\* model wraps at 2^30, which behaves the same for every buffer shorter
\* than 2^29 bytes (the only wraps are npos + 1 = 0 and end - start with
\* end < start, which then exceeds every buffer length).
SizeMod == 2 ^ 30
Wrap(x) == x % SizeMod
npos == SizeMod - 1

Min2(a, b) == IF a <= b THEN a ELSE b
Max2(a, b) == IF a >= b THEN a ELSE b

\* std::int16_t conversion of an int.
Int16(x) == ((x + 32768) % 65536) - 32768

\* std::string_view::find(ch, pos) on the byte sequence s: the least
\* 0-based index k >= pos with s[k] = ch, or npos.
Find(s, ch, pos) ==
    LET hits == {k \in 0..(Len(s) - 1) : k >= pos /\ s[k + 1] = ch}
    IN  IF hits = {} THEN npos
        ELSE CHOOSE k \in hits : \A h \in hits : k <= h

\* The bytes of the view v of buffer buf.
Bytes(buf, v) == SubSeq(buf, v.off + 1, v.off + v.len)

EmptyView == [off |-> 0, len |-> 0]

\* ------------------------------------------------------------ Stats
\* A Stats whose members are zero-initialised.
StatsZeroInitialised == [min |-> 0, max |-> 0, sum |-> 0, count |-> 0]
\* Stats' default member initialisers.
StatsDefault == [min |-> 32767, max |-> -32768, sum |-> 0, count |-> 0]

\* Stats::update
StatsUpdate(s, temp) ==
    [min |-> Min2(s.min, temp), max |-> Max2(s.max, temp),
     sum |-> s.sum + temp, count |-> s.count + 1]

\* A merge that takes the other side's extremes instead of comparing.
StatsMergeOverwrite(s, o) ==
    [min |-> o.min, max |-> o.max,
     sum |-> s.sum + o.sum, count |-> s.count + o.count]

\* Stats::merge
StatsMerge(s, o) ==
    [min |-> Min2(s.min, o.min), max |-> Max2(s.max, o.max),
     sum |-> s.sum + o.sum, count |-> s.count + o.count]

\* A StatsMap is a function from its keys (byte sequences) to Stats.
EmptyMap == [c \in {} |-> StatsDefault]

\* ------------------------------------------------------ get_temperature
\* get_temperature with the one-digit offset used in both branches.
get_temperature_same_offset(value) ==
    LET neg  == value[1] = CharMinus
        sign == IF neg THEN -1 ELSE 1
        v    == IF neg THEN Tail(value) ELSE value
    IN  IF Len(v) = 3
        THEN Int16(sign * (10 * v[1] + v[3] - CharZero * 11))
        ELSE Int16(sign * (100 * v[1] + 10 * v[2] + v[4] - CharZero * 11))

get_temperature(value) ==
    LET neg  == value[1] = CharMinus
        sign == IF neg THEN -1 ELSE 1
        v    == IF neg THEN Tail(value) ELSE value
    IN  IF Len(v) = 3
        THEN Int16(sign * (10 * v[1] + v[3] - CharZero * 11))
        ELSE Int16(sign * (100 * v[1] + 10 * v[2] + v[4] - CharZero * 111))

\* ------------------------------------------------------ process_segment
\* The body of process_segment's loop for one line (a byte sequence).
ProcessLine(map, line) ==
    LET sep  == Find(line, data_sep, 0)
        city == SubSeq(line, 1, Min2(sep, Len(line)))
        rest == Wrap(sep + 1)
        temp == get_temperature(SubSeq(line, rest + 1, Len(line)))
    IN  IF city \in DOMAIN map
        THEN [map EXCEPT ![city] = StatsUpdate(@, temp)]
        ELSE map @@ (city :> StatsUpdate(StatsDefault, temp))

\* Reader::getline on the view v of buf with the reader at pos: the index
\* of the next terminator within the view, or npos.
GetlineFind(buf, v, pos) == Find(Bytes(buf, v), CharNL, pos)

\* ------------------------------------------------------- merge_results
\* One pass of the outer loop: every entry of cities is merged into
\* merged[city], which operator[] default-constructs when absent.
MergeMap(merged, cities) ==
    [c \in (DOMAIN merged) \cup (DOMAIN cities) |->
        IF c \in DOMAIN cities
        THEN StatsMerge(IF c \in DOMAIN merged THEN merged[c] ELSE StatsDefault,
                        cities[c])
        ELSE merged[c]]

RECURSIVE MergeFrom(_, _, _)
MergeFrom(merged, rs, k) ==
    IF k > Len(rs) THEN merged
    ELSE MergeFrom(MergeMap(merged, rs[k]), rs, k + 1)

\* merged = std::move(results.front()), then the fold over subspan(1).
merge_results(rs) == MergeFrom(rs[1], rs, 2)

\* ---------------------------------------------------------- split_input
\* ceil(total_size / chunks)
ChunkSize(n, c) == (n + c - 1) \div c

\* One iteration of split_input's loop for index k, given the bytes the two
\* boundary checks read (bStart is unused when k = 0: the && short-circuits).
SplitStep(buf, c, k, bStart, bEnd) ==
    LET size   == ChunkSize(Len(buf), c)
        start0 == Wrap(k * size)
        end0   == Wrap(start0 + size)
        start  == IF k > 0 /\ bStart # CharNL
                  THEN Wrap(Find(buf, CharNL, start0) + 1) ELSE start0
        end    == IF k < c /\ bEnd # CharNL
                  THEN Wrap(Find(buf, CharNL, end0) + 1) ELSE end0
    IN  [start |-> start, end |-> end, count |-> Wrap(end - start)]

\* std::string_view::substr(pos, count) on a view of n bytes at offset 0;
\* the caller handles pos > n (std::out_of_range).
Substr(n, pos, count) == [off |-> pos, len |-> Min2(count, n - pos)]

\* --------------------------------------------------------- input files
Digit(d) == CharZero + d

\* The text of the scaled integer v: optional '-', one or two integer
\* digits (two when pad, a leading zero), '.', one fractional digit.
Encode(v, neg, pad) ==
    LET a  == IF v < 0 THEN -v ELSE v
        ip == a \div 10
        f  == a % 10
    IN  (IF neg THEN <<CharMinus>> ELSE <<>>)
        \o (IF ip >= 10 \/ pad THEN <<Digit(ip \div 10), Digit(ip % 10)>>
            ELSE <<Digit(ip)>>)
        \o <<CharDot, Digit(f)>>

Line(name, v) == name \o <<data_sep>> \o Encode(v, v < 0, FALSE) \o <<CharNL>>

NameA == <<97>>
NameB == <<98>>
RecordSamples == {Line(NameA, 10), Line(NameB, -25), Line(NameA, 123)}

RECURSIVE Flatten(_)
Flatten(ss) == IF ss = <<>> THEN <<>> ELSE Head(ss) \o Flatten(Tail(ss))

\* Well-formed files of at most MaxRecords records, and the same files with
\* the final line terminator missing.
Terminated == {Flatten(rs) : rs \in UNION {[1..n -> RecordSamples] : n \in 0..MaxRecords}}
Files == Terminated \cup {SubSeq(f, 1, Len(f) - 1) : f \in Terminated \ {<<>>}}

\* ---------------------------------------------------------------- state
VARIABLES
    data,        \* the mapped file's bytes (MappedFile::data_, size_)
    chunks,      \* number_of_threads()
    pc,          \* the main thread's position
    i,           \* the loop index of split_input's loop, then of the spawn loop
    joined,      \* how many threads the join loop has joined
    segments,    \* split_input's vector of views
    beyond,      \* bytes seen so far by reads past the end of the buffer
    trace,       \* per split_input iteration: start, end and the indices read
    wpc,         \* each worker thread's position
    rpos,        \* each worker's Reader::pos_
    cities,      \* each worker's local map in process_segment
    yielded,     \* each worker's lines yielded by getline so far (views)
    results,     \* process_all's vector of maps
    slotWriters, \* which threads have assigned each slot of results
    finished,    \* the workers in the order they finished
    handed,      \* the list merge_results was called with
    merged,      \* merge_results' return value
    outcome,     \* how the run ended, "running" until then
    shuffled,    \* a permutation of the list of maps
    mergedShuffled, \* merge_results of the permuted list
    value,       \* get_temperature's argument and the integer it encodes
    temp         \* get_temperature's return value

vars == <<data, chunks, pc, i, joined, segments, beyond, trace, wpc, rpos,
          cities, yielded, results, slotWriters, finished, handed, merged,
          outcome, shuffled, mergedShuffled, value, temp>>

splitVars  == <<segments, beyond, trace>>
workerVars == <<wpc, rpos, cities, yielded, results, slotWriters, finished>>
mergeVars  == <<handed, merged, shuffled, mergedShuffled>>
parseVars  == <<value, temp>>

Workers == 0..(chunks - 1)

\* ----------------------------------------------------------- the run
Init ==
    /\ data \in Files
    /\ chunks \in 1..MaxChunks
    /\ pc = "map_file"
    /\ i = 0
    /\ joined = 0
    /\ segments = <<>>
    /\ beyond = <<>>
    /\ trace = <<>>
    /\ wpc = [w \in Workers |-> "unborn"]
    /\ rpos = [w \in Workers |-> 0]
    /\ cities = [w \in Workers |-> EmptyMap]
    /\ yielded = [w \in Workers |-> <<>>]
    /\ results = <<>>
    /\ slotWriters = [k \in Workers |-> {}]
    /\ finished = <<>>
    /\ handed = <<>>
    /\ merged = EmptyMap
    /\ outcome = "running"
    /\ shuffled = <<>>
    /\ mergedShuffled = EmptyMap
    /\ value = [v |-> 0, text |-> <<>>]
    /\ temp = 0

\* MappedFile's constructor: mmap of a zero-length file fails (EINVAL) and
\* map_file throws std::runtime_error, which nothing catches.
MapFile ==
    /\ pc = "map_file"
    /\ IF Len(data) = 0
       THEN pc' = "done" /\ outcome' = "runtime_error"
       ELSE pc' = "split_input" /\ outcome' = outcome
    /\ UNCHANGED <<data, chunks, i, joined, splitVars, workerVars, mergeVars, parseVars>>

\* split_input up to its loop: the vector of chunks empty views.
SplitBegin ==
    /\ pc = "split_input"
    /\ segments' = [k \in 1..chunks |-> EmptyView]
    /\ i' = 0
    /\ pc' = "split_loop"
    /\ UNCHANGED <<data, chunks, joined, beyond, trace, workerVars, mergeVars,
                   parseVars, outcome>>

\* What data[k] reads: the byte when k is inside the buffer; past the end the
\* behaviour is undefined, and the read yields whatever lies there (the same
\* byte on every read of that address) or faults.
ReadByte(k) ==
    IF k < Len(data) THEN {data[k + 1]}
    ELSE IF k \in DOMAIN beyond THEN {beyond[k]}
    ELSE {CharNL, CharNUL, Fault}

Seen(k, b) == IF k < Len(data) \/ b = Fault THEN <<>> ELSE (k :> b)

\* One iteration of split_input's loop, and the return after the last one.
SplitIter ==
    /\ pc = "split_loop"
    /\ i < chunks
    /\ LET size   == ChunkSize(Len(data), chunks)
           start0 == Wrap(i * size)
           end0   == Wrap(start0 + size)
           atS    == Wrap(start0 - 1)
           atE    == Wrap(end0 - 1)
       IN  \E bS \in (IF i > 0 THEN ReadByte(atS) ELSE {CharNL}) :
           \E bE \in (IF bS = Fault THEN {CharNL} ELSE ReadByte(atE)) :
             LET st    == SplitStep(data, chunks, i, bS, bE)
                 reads == (IF i > 0 THEN {atS} ELSE {}) \cup
                          (IF bS = Fault THEN {} ELSE {atE})
                 entry == [k |-> i, start |-> st.start, end |-> st.end,
                           reads |-> reads]
             IN  /\ beyond' = (IF i > 0 THEN Seen(atS, bS) ELSE <<>>)
                                @@ (IF bS = Fault THEN <<>> ELSE Seen(atE, bE))
                                @@ beyond
                 /\ IF Fault \in {bS, bE}
                    THEN /\ trace' = Append(trace, [entry EXCEPT !.start = start0, !.end = end0])
                         /\ pc' = "done" /\ outcome' = "SIGSEGV"
                         /\ UNCHANGED <<segments, i>>
                    ELSE /\ trace' = Append(trace, entry)
                         /\ IF st.start > Len(data)
                            THEN /\ pc' = "done" /\ outcome' = "out_of_range"
                                 /\ UNCHANGED <<segments, i>>
                            ELSE /\ segments' = [segments EXCEPT ![i + 1] =
                                        Substr(Len(data), st.start, st.count)]
                                 /\ i' = i + 1
                                 /\ pc' = IF i + 1 = chunks THEN "process_all" ELSE pc
                                 /\ outcome' = outcome
    /\ UNCHANGED <<data, chunks, joined, workerVars, mergeVars, parseVars>>

\* process_all up to its loop: results holds one empty map per segment.
ProcessAllBegin ==
    /\ pc = "process_all"
    /\ results' = [k \in 1..chunks |-> EmptyMap]
    /\ i' = 0
    /\ pc' = "spawn"
    /\ UNCHANGED <<data, chunks, joined, splitVars, wpc, rpos, cities, yielded,
                   slotWriters, finished, mergeVars, parseVars, outcome>>

\* threads.emplace_back(...): thread i starts in process_segment with an
\* empty map and a Reader at position 0.
Spawn ==
    /\ pc = "spawn"
    /\ i < chunks
    /\ wpc' = [wpc EXCEPT ![i] = "getline"]
    /\ i' = i + 1
    /\ pc' = IF i + 1 = chunks THEN "join" ELSE pc
    /\ UNCHANGED <<data, chunks, joined, splitVars, rpos, cities, yielded, results,
                   slotWriters, finished, mergeVars, parseVars, outcome>>

\* The index a thread would use had its lambda captured i by reference: the
\* loop variable's value at the time of use.
SlotOfByReference(w) == Min2(i, chunks - 1)

\* The index the thread's lambda uses: i is captured by value ([=, ...]).
SlotOf(w) == w

\* One turn of process_segment's loop in worker w: getline, and for a line
\* found, the update of the worker's map; when getline fails the loop ends.
Getline(w) ==
    /\ wpc[w] = "getline"
    /\ LET seg == segments[SlotOf(w) + 1]
           nl  == GetlineFind(data, seg, rpos[w])
       IN  IF nl = npos
           THEN /\ wpc' = [wpc EXCEPT ![w] = "store"]
                /\ UNCHANGED <<rpos, cities, yielded>>
           ELSE LET line == [off |-> seg.off + rpos[w], len |-> nl - rpos[w]]
                IN  /\ rpos' = [rpos EXCEPT ![w] = nl + 1]
                    /\ yielded' = [yielded EXCEPT ![w] = Append(@, line)]
                    /\ cities' = [cities EXCEPT ![w] = ProcessLine(@, Bytes(data, line))]
                    /\ UNCHANGED wpc
    /\ UNCHANGED <<data, chunks, pc, i, joined, splitVars, results, slotWriters,
                   finished, mergeVars, parseVars, outcome>>

\* results[i] = process_segment(segments[i]), and the thread ends.
Store(w) ==
    /\ wpc[w] = "store"
    /\ results' = [results EXCEPT ![SlotOf(w) + 1] = cities[w]]
    /\ slotWriters' = [slotWriters EXCEPT ![SlotOf(w)] = @ \cup {w}]
    /\ wpc' = [wpc EXCEPT ![w] = "done"]
    /\ finished' = Append(finished, w)
    /\ UNCHANGED <<data, chunks, pc, i, joined, splitVars, rpos, cities, yielded,
                   mergeVars, parseVars, outcome>>

\* A join that does not wait.
JoinReturnsAtOnce(w) == TRUE

\* std::jthread::join returns once the thread has ended.
JoinReturns(w) == wpc[w] = "done"

\* std::ranges::for_each(threads, &std::jthread::join), one thread per step.
Join ==
    /\ pc = "join"
    /\ joined < chunks
    /\ JoinReturns(joined)
    /\ joined' = joined + 1
    /\ pc' = IF joined + 1 = chunks THEN "merge_results" ELSE pc
    /\ UNCHANGED <<data, chunks, i, splitVars, workerVars, mergeVars, parseVars, outcome>>

\* return merge_results(results): the first map is moved from.
Merge ==
    /\ pc = "merge_results"
    /\ handed' = results
    /\ merged' = merge_results(results)
    /\ results' = [results EXCEPT ![1] = EmptyMap]
    /\ pc' = "dump_results"
    /\ UNCHANGED <<data, chunks, i, joined, splitVars, wpc, rpos, cities, yielded,
                   slotWriters, finished, shuffled, mergedShuffled, parseVars, outcome>>

\* dump_results formats *begin(sorted) unconditionally.  On an empty map
\* that dereferences the end iterator: undefined behaviour, which may fault
\* or print whatever the end node holds.
Dump ==
    /\ pc = "dump_results"
    /\ IF DOMAIN merged = {}
       THEN outcome' \in {"SIGSEGV", "formatted_end_iterator"}
       ELSE outcome' = "printed"
    /\ pc' = "done"
    /\ UNCHANGED <<data, chunks, i, joined, splitVars, workerVars, mergeVars, parseVars>>

Next ==
    \/ MapFile
    \/ SplitBegin
    \/ SplitIter
    \/ ProcessAllBegin
    \/ Spawn
    \/ \E w \in Workers : Getline(w)
    \/ \E w \in Workers : Store(w)
    \/ Join
    \/ Merge
    \/ Dump

Spec == Init /\ [][Next]_vars

\* ------------------------------------------- merge_results on its own
SampleStats == {[min |-> 10, max |-> 123, sum |-> 133, count |-> 2],
                [min |-> -25, max |-> -25, sum |-> -25, count |-> 1]}

\* Every map over the two names with sample statistics, the empty map included.
SampleMaps ==
    UNION {[keys -> SampleStats] : keys \in SUBSET {NameA, NameB}}

InitMerge ==
    /\ results \in UNION {[1..n -> SampleMaps] : n \in 1..MaxMaps}
    /\ pc = "shuffle"
    /\ data = <<>>
    /\ chunks = 1
    /\ i = 0
    /\ joined = 0
    /\ segments = <<>>
    /\ beyond = <<>>
    /\ trace = <<>>
    /\ wpc = [w \in Workers |-> "done"]
    /\ rpos = [w \in Workers |-> 0]
    /\ cities = [w \in Workers |-> EmptyMap]
    /\ yielded = [w \in Workers |-> <<>>]
    /\ slotWriters = [k \in Workers |-> {}]
    /\ finished = <<>>
    /\ handed = <<>>
    /\ merged = EmptyMap
    /\ outcome = "running"
    /\ shuffled = <<>>
    /\ mergedShuffled = EmptyMap
    /\ value = [v |-> 0, text |-> <<>>]
    /\ temp = 0

\* A caller shuffles a copy of the list.
Shuffle ==
    /\ pc = "shuffle"
    /\ \E perm \in Permutations(1..Len(results)) :
          shuffled' = [k \in 1..Len(results) |-> results[perm[k]]]
    /\ pc' = "merge_original"
    /\ UNCHANGED <<data, chunks, i, joined, splitVars, workerVars, handed, merged,
                   mergedShuffled, parseVars, outcome>>

MergeOriginal ==
    /\ pc = "merge_original"
    /\ handed' = results
    /\ merged' = merge_results(results)
    /\ results' = [results EXCEPT ![1] = EmptyMap]
    /\ pc' = "merge_shuffled"
    /\ UNCHANGED <<data, chunks, i, joined, splitVars, wpc, rpos, cities, yielded,
                   slotWriters, finished, shuffled, mergedShuffled, parseVars, outcome>>

MergeShuffled ==
    /\ pc = "merge_shuffled"
    /\ mergedShuffled' = merge_results(shuffled)
    /\ shuffled' = [shuffled EXCEPT ![1] = EmptyMap]
    /\ pc' = "done"
    /\ UNCHANGED <<data, chunks, i, joined, splitVars, workerVars, handed, merged,
                   parseVars, outcome>>

NextMerge == Shuffle \/ MergeOriginal \/ MergeShuffled

SpecMerge == InitMerge /\ [][NextMerge]_vars

\* ------------------------------------------ get_temperature on its own
TempRange == -999..999

\* Every text of the shape -?d{1,2}.d, with the scaled integer it encodes:
\* two-digit texts with a leading zero and "-0.0" included.
Encodings ==
    {[v |-> v, text |-> Encode(v, v < 0 \/ (v = 0 /\ negZero), pad)] :
        v \in TempRange, negZero \in BOOLEAN, pad \in BOOLEAN}

InitParse ==
    /\ value \in Encodings
    /\ temp = 0
    /\ pc = "get_temperature"
    /\ data = <<>>
    /\ chunks = 1
    /\ i = 0
    /\ joined = 0
    /\ segments = <<>>
    /\ beyond = <<>>
    /\ trace = <<>>
    /\ wpc = [w \in Workers |-> "done"]
    /\ rpos = [w \in Workers |-> 0]
    /\ cities = [w \in Workers |-> EmptyMap]
    /\ yielded = [w \in Workers |-> <<>>]
    /\ results = <<>>
    /\ slotWriters = [k \in Workers |-> {}]
    /\ finished = <<>>
    /\ handed = <<>>
    /\ merged = EmptyMap
    /\ outcome = "running"
    /\ shuffled = <<>>
    /\ mergedShuffled = EmptyMap

GetTemperature ==
    /\ pc = "get_temperature"
    /\ temp' = get_temperature(value.text)
    /\ pc' = "done"
    /\ UNCHANGED <<data, chunks, i, joined, splitVars, workerVars, mergeVars,
                   value, outcome>>

NextParse == GetTemperature

SpecParse == InitParse /\ [][NextParse]_vars

\* ============================================================ properties
\* Reference definitions the properties compare the code's results with.

SetMin(S) == CHOOSE m \in S : \A x \in S : m <= x
SetMax(S) == CHOOSE m \in S : \A x \in S : m >= x

RECURSIVE SumOver(_, _)
SumOver(S, f) ==
    IF S = {} THEN 0
    ELSE LET x == CHOOSE y \in S : TRUE IN f[x] + SumOver(S \ {x}, f)

\* The terminator-ended lines of the byte sequence s, as views without the
\* terminator, offsets relative to s.
LinesOf(s) ==
    LET nls == {k \in 0..(Len(s) - 1) : s[k + 1] = CharNL}
        from(e) == IF \E p \in nls : p < e
                   THEN SetMax({p \in nls : p < e}) + 1 ELSE 0
    IN  {[off |-> from(e), len |-> e - from(e)] : e \in nls}

\* The name and the scaled value of a line, read as decimal text.
RECURSIVE DecimalOf(_)
DecimalOf(digits) ==
    IF digits = <<>> THEN 0
    ELSE 10 * DecimalOf(SubSeq(digits, 1, Len(digits) - 1))
         + (digits[Len(digits)] - CharZero)

IsDigit(c) == c >= CharZero /\ c <= CharZero + 9
NameOf(line) == SubSeq(line, 1, (CHOOSE k \in 1..Len(line) : line[k] = data_sep /\ \A j \in 1..(k - 1) : line[j] # data_sep) - 1)
ValueOf(line) ==
    LET text == SubSeq(line, Len(NameOf(line)) + 2, Len(line))
        n    == DecimalOf(SelectSeq(text, IsDigit))
    IN  IF text[1] = CharMinus THEN -n ELSE n

\* The statistics of the byte sequence s: per name, over its lines.
AggregateOf(s) ==
    LET lines == LinesOf(s)
        txt(l) == SubSeq(s, l.off + 1, l.off + l.len)
        names == {NameOf(txt(l)) : l \in lines}
        of(n) == {l \in lines : NameOf(txt(l)) = n}
        val   == [l \in lines |-> ValueOf(txt(l))]
    IN  [n \in names |->
            [min |-> SetMin({val[l] : l \in of(n)}),
             max |-> SetMax({val[l] : l \in of(n)}),
             sum |-> SumOver(of(n), val),
             count |-> Cardinality(of(n))]]

\* The pointwise combination of a list of maps.
CombinationOf(rs) ==
    LET names == UNION {DOMAIN rs[k] : k \in 1..Len(rs)}
        has(n) == {k \in 1..Len(rs) : n \in DOMAIN rs[k]}
    IN  [n \in names |->
            [min |-> SetMin({rs[k][n].min : k \in has(n)}),
             max |-> SetMax({rs[k][n].max : k \in has(n)}),
             sum |-> SumOver(has(n), [k \in has(n) |-> rs[k][n].sum]),
             count |-> SumOver(has(n), [k \in has(n) |-> rs[k][n].count])]]

\* process_segment run to its end on one segment, and the whole pipeline
\* with one worker (for a non-empty buffer no read of split_input is out of
\* bounds when chunks = 1).
RECURSIVE ProcessSegment(_, _, _, _)
ProcessSegment(buf, seg, pos, map) ==
    LET nl == GetlineFind(buf, seg, pos)
    IN  IF nl = npos THEN map
        ELSE ProcessSegment(buf, seg, nl + 1,
                ProcessLine(map, Bytes(buf, [off |-> seg.off + pos, len |-> nl - pos])))

SingleWorker(buf) ==
    LET st  == SplitStep(buf, 1, 0, CharNL, buf[Len(buf)])
        seg == Substr(Len(buf), st.start, st.count)
    IN  merge_results(<<ProcessSegment(buf, seg, 0, EmptyMap)>>)

SegEnd(v) == v.off + v.len

\* What each thread touches at its position: the objects it writes and the
\* objects it reads in the step it is about to take.
Obj(name, k) == [obj |-> name, k |-> k]

WorkerWrites(w) ==
    IF wpc[w] = "getline" THEN {Obj("cities", w)}
    ELSE IF wpc[w] = "store" THEN {Obj("results", SlotOf(w))}
    ELSE {}

WorkerReads(w) ==
    IF wpc[w] = "getline" THEN {Obj("buffer", 0), Obj("segments", SlotOf(w))}
    ELSE IF wpc[w] = "store" THEN {Obj("cities", w)}
    ELSE {}

MainWrites ==
    IF pc = "split_loop" THEN {Obj("segments", k) : k \in Workers}
    ELSE IF pc = "process_all" THEN {Obj("results", k) : k \in Workers}
    ELSE IF pc = "merge_results" THEN {Obj("results", 0)}
    ELSE {}

MainReads ==
    IF pc = "split_loop" THEN {Obj("buffer", 0)}
    ELSE IF pc = "merge_results" THEN {Obj("results", k) : k \in Workers}
    ELSE {}

YieldedInOrder == Flatten([k \in 1..chunks |-> yielded[k - 1]])

\* ---------------------------------------------------------------- claims

\* C1: whenever split_input returns, its chunks segments partition the
\* buffer: segment 0 starts at offset 0, each segment ends where the next
\* starts, the last ends at total_size, and every start is 0 or follows a
\* line terminator.
C1_SplitPartitionsBuffer ==
    pc = "process_all" =>
        /\ Len(segments) = chunks
        /\ segments[1].off = 0
        /\ \A k \in 1..(chunks - 1) : SegEnd(segments[k]) = segments[k + 1].off
        /\ SegEnd(segments[chunks]) = Len(data)
        /\ \A k \in 1..chunks :
              segments[k].off = 0 \/ data[segments[k].off] = CharNL

\* C2: the merged map of a run with chunks workers equals the merged map
\* of the run with one worker over the same file.
C2_SameAsSingleWorker ==
    pc = "dump_results" => merged = SingleWorker(data)

\* C3: merge_results returns the pointwise combination of the maps it was
\* handed: the union of the key sets and, per name, the minimum of the
\* mins, the maximum of the maxes and the sums of the sums and counts, also
\* for names absent from the first map.
C3_MergeCombines ==
    handed # <<>> => merged = CombinationOf(handed)

C3_Witness ==
    /\ pc = "merge_shuffled"
    /\ Len(handed) = 3
    /\ NameB \notin DOMAIN handed[1]
    /\ NameB \in DOMAIN handed[2] /\ NameB \in DOMAIN handed[3]
    /\ NameA \in DOMAIN handed[1] /\ NameA \in DOMAIN handed[3]
    /\ handed[2][NameB] # handed[3][NameB]
    /\ merged[NameB].count = 3

\* C4: merging a permutation of the list gives the same map as merging
\* the list: the same names with the same min, max, sum and count.
C4_MergeOrderIndependent ==
    pc = "done" => mergedShuffled = merged

C4_Witness ==
    /\ pc = "done"
    /\ Len(handed) = 2
    /\ shuffled[2] = handed[1]
    /\ DOMAIN handed[1] = {NameA}
    /\ DOMAIN handed[2] = {NameA, NameB}
    /\ handed[1][NameA] # handed[2][NameA]
    /\ DOMAIN mergedShuffled = {NameA, NameB}

\* C5: get_temperature returns the scaled integer its argument encodes,
\* for every text of the shape -?d{1,2}.d of every integer in -999..999.
C5_ParseRoundTrip ==
    pc = "done" => temp = value.v

C5_Witness ==
    /\ pc = "done"
    /\ value.text = <<CharMinus, CharZero, CharZero + 9, CharDot, CharZero + 5>>
    /\ temp = -95

\* C6: a run whose input is empty, or whose merged map has no entry, ends
\* in EmptyInputError (and so never formats the first element of an empty
\* sequence).
C6_EmptyInputError ==
    (pc = "done" /\ (Len(data) = 0 \/ (handed # <<>> /\ DOMAIN merged = {})))
        => outcome = "EmptyInputError"

\* C7: no object is touched by two threads at once unless both only read
\* it: a worker writes nothing another worker or the main thread touches,
\* slot k of results is assigned by worker k alone, nobody writes the
\* buffer, and the main thread reaches merge_results only when every
\* worker has ended.
C7_NoConcurrentAccess ==
    /\ \A w1 \in Workers : \A w2 \in Workers \ {w1} :
          WorkerWrites(w1) \cap (WorkerWrites(w2) \cup WorkerReads(w2)) = {}
    /\ \A w \in Workers :
          /\ WorkerWrites(w) \cap (MainWrites \cup MainReads) = {}
          /\ MainWrites \cap WorkerReads(w) = {}
          /\ Obj("buffer", 0) \notin WorkerWrites(w)
          /\ slotWriters[w] \subseteq {w}
    /\ Obj("buffer", 0) \notin MainWrites
    /\ pc = "merge_results" => \A w \in Workers : wpc[w] = "done"

C7_Witness ==
    /\ pc = "join"
    /\ chunks >= 2
    /\ wpc[0] = "store" /\ wpc[1] = "getline"
    /\ cities[0] # EmptyMap /\ cities[1] # EmptyMap

\* C8: no thread is joined before all are started, merge_results begins
\* only when every worker has ended and been joined, and then results[k]
\* is the aggregate of segment k's lines for every k.
C8_FanOutFanIn ==
    /\ joined > 0 => \A w \in Workers : wpc[w] # "unborn"
    /\ pc = "merge_results" =>
          /\ joined = chunks
          /\ \A w \in Workers : wpc[w] = "done"
          /\ \A k \in 1..chunks :
                results[k] = AggregateOf(Bytes(data, segments[k]))

C8_Witness ==
    /\ pc = "merge_results"
    /\ chunks = 3
    /\ finished = <<2, 0, 1>>
    /\ results[1] # EmptyMap /\ results[2] # EmptyMap /\ results[3] # EmptyMap

\* C9: when the workers have ended, the lines they yielded, taken in
\* segment order, are exactly the terminator-ended lines of the file, each
\* once and in file order.
C9_LinesYieldedOnce ==
    pc = "merge_results" =>
        /\ {YieldedInOrder[k] : k \in 1..Len(YieldedInOrder)} = LinesOf(data)
        /\ Len(YieldedInOrder) = Cardinality(LinesOf(data))
        /\ \A a \in 1..Len(YieldedInOrder) : \A b \in (a + 1)..Len(YieldedInOrder) :
              YieldedInOrder[a].off < YieldedInOrder[b].off

\* C10: every byte split_input reads lies inside the buffer, substr is
\* never called with a start past the buffer's end, and no iteration ends
\* with a start greater than its end.
C10_SplitStaysInBounds ==
    \A n \in 1..Len(trace) :
        /\ \A r \in trace[n].reads : r < Len(data)
        /\ trace[n].start <= Len(data)
        /\ trace[n].start <= trace[n].end

====
